---- MODULE Spec2Model ----
(***************************************************************************)
(* A model of quantumcat's QCircuit facade (src/quantumcat/circuit/        *)
(* circuit.py): the operation log filled by the gate-building calls, the   *)
(* translation cache (provider, converted_q_circuit) and the               *)
(* draw / execute / compare_results operations that use it.                *)
(*                                                                         *)
(* Python values are represented with one shape per field:                 *)
(*   - an operation {OpType.k: qubits, PARAMS: params} is the record       *)
(*     [kind, qubits, params, ancilla, mode]; qubits is the list stored    *)
(*     under the OpType key as a sequence of groups: a flat list [q] is    *)
(*     the single group <<q>>, a nested list [[c], [t]] is the two groups  *)
(*     <<c>>, <<t>>; ancilla and mode are the third and fourth entries of  *)
(*     the list mct_gate stores (absent for the other kinds);              *)
(*   - None is the string "None" where the field holds strings, NoneList   *)
(*     where it holds a list and NoCircuit where it holds a native         *)
(*     circuit;                                                            *)
(*   - a raised exception is the error field of a call's outcome.          *)
(***************************************************************************)
EXTENDS Integers, Sequences, FiniteSets, TLC

VARIABLES
    qubits,               \* self.qubits
    operations,           \* self.operations
    converted_q_circuit,  \* self.converted_q_circuit
    provider,             \* self.provider
    last,                 \* what the caller observed of the most recent call
    callers               \* the concurrent callers of execute: position and locals

vars == <<qubits, operations, converted_q_circuit, provider, last, callers>>

(***************************************************************************)
(* Bounds of the model.                                                    *)
(***************************************************************************)
MaxQubits == 2      \* circuits of 1..MaxQubits qubits
MaxOps == 2         \* length of the operation log when only gates are built
MaxRunOps == 2      \* length of the operation log when the circuit is also run
MaxControls == 1    \* length of a control / ancilla list passed to mcx, mct
NumCallers == 2     \* threads that share one circuit

(***************************************************************************)
(* providers.* : the backend selectors QCircuit compares self.provider to. *)
(* OTHER_PROVIDER stands for any selector that equals none of them.        *)
(***************************************************************************)
IBM_PROVIDER == "IBM"
GOOGLE_PROVIDER == "Google"
IONQ_PROVIDER == "IonQ"
MICROSOFT_PROVIDER == "Microsoft"
AMAZON_PROVIDER == "Amazon"
OTHER_PROVIDER == "Other"

Providers == {IBM_PROVIDER, GOOGLE_PROVIDER, IONQ_PROVIDER, MICROSOFT_PROVIDER,
              AMAZON_PROVIDER, OTHER_PROVIDER}

(***************************************************************************)
(* Python values.                                                          *)
(***************************************************************************)
None == "None"
NoneList == [none |-> TRUE, list |-> <<>>]
SomeList(l) == [none |-> FALSE, list |-> l]
NoCircuit == [translator |-> None, provider |-> None, ops |-> <<>>]

\* The set of elements of a sequence.
Range(s) == {s[i] : i \in 1..Len(s)}

\* The sequences over S of length lo..hi.
SeqsOf(S, lo, hi) == UNION {[1..k -> S] : k \in lo..hi}

(***************************************************************************)
(* The operation log.                                                      *)
(***************************************************************************)
Op(kind, groups, params) ==
    [kind |-> kind, qubits |-> groups, params |-> params,
     ancilla |-> NoneList, mode |-> ""]

\* Every qubit index an operation holds, in any role.
OpIndices(op) ==
    UNION {Range(op.qubits[g]) : g \in 1..Len(op.qubits)} \cup Range(op.ancilla.list)

\* check_qubit_boundary: TRUE when it raises CircuitError(QUBIT_OUT_OF_BOUND).
check_qubit_boundary(n, qubit) == qubit > (n - 1)

\* The outcome of a gate-building call: what the caller gets and the log after it.
\* `checked` are the indices the call hands to check_qubit_boundary, `op` the
\* operation it appends when none of them raises, `ret` what it returns then.
Build(call, checked, op, ret) ==
    IF \E q \in checked : check_qubit_boundary(qubits, q)
    THEN /\ last' = [call |-> call, input |-> NoneList, value |-> None,
                     error |-> "CircuitError", steps |-> <<>>, output |-> <<>>]
         /\ UNCHANGED <<operations, callers>>
    ELSE /\ operations' = Append(operations, op)
         /\ UNCHANGED callers
         /\ last' = [call |-> call, input |-> NoneList, value |-> ret,
                     error |-> "", steps |-> <<>>, output |-> <<>>]

\* x_gate stands for every call that checks its one qubit and returns self:
\* x, y, z, h, s, sdg, sx, sxd, t, td, i and, with parameters, ry, rz, u, u1,
\* u2, u3, rx, r, p.
x_gate(qubit) ==
    /\ Build("x_gate", {qubit}, Op("x_gate", <<<<qubit>>>>, <<>>), "self")
    /\ UNCHANGED <<qubits, converted_q_circuit, provider>>

\* cx_gate stands for every two-qubit call that checks both qubits: cx, swap,
\* iswap, dcx, ch, csx, ryy, rzz, rzx, rxx, cphase, crx, cry, crz, cu, cu1, cu3.
cx_gate(control_qubit, target_qubit) ==
    /\ Build("cx_gate", {control_qubit, target_qubit},
             Op("cx_gate", <<<<control_qubit>>, <<target_qubit>>>>, <<>>), "self")
    /\ UNCHANGED <<qubits, converted_q_circuit, provider>>

\* cz_gate (and cy_gate, same shape) checks the control qubit only.
cz_gate(control_qubit, target_qubit) ==
    /\ Build("cz_gate", {control_qubit},
             Op("cz_gate", <<<<control_qubit>>, <<target_qubit>>>>, <<>>), "self")
    /\ UNCHANGED <<qubits, converted_q_circuit, provider>>

\* mcx_gate checks the target and the controls, not the ancillas; `mode` is
\* not stored.
mcx_gate(control_qubits, target_qubit, ancilla_qubits, mode) ==
    /\ Build("mcx_gate", {target_qubit} \cup Range(control_qubits),
             Op("mcx_gate", <<control_qubits \o <<target_qubit>> \o ancilla_qubits>>,
                <<Len(control_qubits)>>), "self")
    /\ UNCHANGED <<qubits, converted_q_circuit, provider>>

\* mcxvchain_gate checks the target and the controls and stores both its
\* parameters: the number of controls and dirty_ancilla.
mcxvchain_gate(control_qubits, target_qubit, dirty_ancilla) ==
    /\ Build("mcxvchain_gate", {target_qubit} \cup Range(control_qubits),
             Op("mcxvchain_gate", <<control_qubits \o <<target_qubit>>>>,
                <<Len(control_qubits), dirty_ancilla>>), "self")
    /\ UNCHANGED <<qubits, converted_q_circuit, provider>>

\* mct_gate checks the target only and stores the four arguments as given.
mct_gate(control_qubits, target_qubit, ancilla_qubits, mode) ==
    /\ Build("mct_gate", {target_qubit},
             [kind |-> "mct_gate", qubits |-> <<control_qubits, <<target_qubit>>>>,
              params |-> <<>>, ancilla |-> ancilla_qubits, mode |-> mode], "self")
    /\ UNCHANGED <<qubits, converted_q_circuit, provider>>

\* measure has no return statement: the call evaluates to None.
measure(qubit) ==
    /\ Build("measure", {qubit}, Op("measure", <<<<qubit>>>>, <<>>), None)
    /\ UNCHANGED <<qubits, converted_q_circuit, provider>>

\* measure_all checks nothing and has no return statement.
measure_all ==
    /\ Build("measure_all", {}, Op("measure_all", <<>>, <<>>), None)
    /\ UNCHANGED <<qubits, converted_q_circuit, provider>>

\* The calls whose purpose is to append one operation.
GateCalls == {"x_gate", "cx_gate", "cz_gate", "mcx_gate", "mcxvchain_gate",
              "mct_gate", "measure", "measure_all"}

\* The qubit indices a caller may pass: negative, in range, and past the end.
Indices == -1..qubits

\* The control lists and the ancilla lists a caller may pass.
ControlLists == SeqsOf({-1, 0, qubits}, 1, MaxControls)
AncillaLists == SeqsOf({0, qubits}, 0, MaxControls)

Modes == {"noancilla", "recursion"}

\* QCircuit(qubits, provider): the state after construction.
Init ==
    /\ qubits \in 1..MaxQubits
    /\ operations = <<>>
    /\ converted_q_circuit = NoCircuit
    /\ provider \in Providers
    /\ last = [call |-> "__init__", input |-> NoneList, value |-> None,
               error |-> "", steps |-> <<>>, output |-> <<>>]
    /\ callers = <<>>

(***************************************************************************)
(* Building a circuit: every gate-building call on every argument.         *)
(***************************************************************************)
BuildX == \E q \in Indices : Len(operations) < MaxOps /\ x_gate(q)
BuildCx == \E c, t \in Indices : Len(operations) < MaxOps /\ cx_gate(c, t)
BuildCz == \E c, t \in Indices : Len(operations) < MaxOps /\ cz_gate(c, t)
BuildMcx ==
    \E cs \in ControlLists, t \in {0, qubits}, as \in AncillaLists, m \in Modes :
        Len(operations) < MaxOps /\ mcx_gate(cs, t, as, m)
BuildMcxvchain ==
    \E cs \in ControlLists, t \in {0, qubits}, d \in BOOLEAN :
        Len(operations) < MaxOps /\ mcxvchain_gate(cs, t, d)
BuildMct ==
    \E cs \in ControlLists, t \in {0, qubits},
       as \in {NoneList} \cup {SomeList(l) : l \in AncillaLists}, m \in Modes :
        Len(operations) < MaxOps /\ mct_gate(cs, t, as, m)
BuildMeasure == \E q \in Indices : Len(operations) < MaxOps /\ measure(q)
BuildMeasureAll == Len(operations) < MaxOps /\ measure_all

BuildNext ==
    \/ BuildX
    \/ BuildCx
    \/ BuildCz
    \/ BuildMcx
    \/ BuildMcxvchain
    \/ BuildMct
    \/ BuildMeasure
    \/ BuildMeasureAll

SpecBuild == Init /\ [][BuildNext]_vars

(***************************************************************************)
(* Translation and execution.                                              *)
(*                                                                         *)
(* QCircuit as a value: the fields a call reads and writes.                *)
(***************************************************************************)
Self ==
    [qubits |-> qubits, operations |-> operations,
     converted_q_circuit |-> converted_q_circuit, provider |-> provider]

(***************************************************************************)
(* Lists the caller still holds. A Python list is an object: when the      *)
(* circuit stores or returns the list itself rather than a copy, a later   *)
(* change the caller makes to it is a change of the circuit's state.       *)
(***************************************************************************)
\* get_operations returns self.operations itself, not a copy.
get_operations(self) == self.operations

\* The gate-building calls that are given a control list, and the one that
\* stores that list itself: mct_gate puts control_qubits in the operation,
\* mcx_gate (like mcxgc, mcxvchain, mcxrec, mcp) stores control_qubits[:].
TakesControlList(op) == op.kind \in {"mcx_gate", "mct_gate"}
StoresControlList(op) == op.kind = "mct_gate"

\* The caller runs control_qubits[0] = q on the list it passed to the call
\* that appended operation i.
CallerSetsPassedList ==
    \E i \in 1..Len(operations), q \in {-1, 0, qubits} :
        /\ TakesControlList(operations[i])
        /\ operations' =
             IF StoresControlList(operations[i])
             THEN [operations EXCEPT ![i].qubits[1][1] = q]
             ELSE operations
        /\ last' = [call |-> "control_qubits[0] = q", input |-> NoneList,
                    value |-> None, error |-> "", steps |-> <<>>, output |-> <<>>]
        /\ UNCHANGED <<qubits, converted_q_circuit, provider, callers>>

\* The caller runs get_operations().pop().
CallerPopsReturnedLog ==
    /\ Len(get_operations(Self)) > 0
    /\ operations' = SubSeq(operations, 1, Len(operations) - 1)
    /\ last' = [call |-> "get_operations().pop()", input |-> NoneList,
                value |-> "operation", error |-> "", steps |-> <<>>, output |-> <<>>]
    /\ UNCHANGED <<qubits, converted_q_circuit, provider, callers>>

\* Building a circuit while the caller keeps using the lists it holds.
LogNext ==
    \/ BuildX
    \/ BuildCx
    \/ BuildCz
    \/ BuildMcx
    \/ BuildMct
    \/ BuildMeasure
    \/ BuildMeasureAll
    \/ CallerSetsPassedList
    \/ CallerPopsReturnedLog

SpecLog == Init /\ [][LogNext]_vars

\* convert.to_qiskit / to_cirq / to_q_sharp / to_braket (quantumcat.circuit.convert):
\* a translator builds the native circuit of the operations it is given, or
\* raises for an operation kind it has no equivalent of. The native circuit is
\* the record of what it was built by, for and from.
TranslateOutcomes(ops) == IF ops = <<>> THEN {TRUE} ELSE BOOLEAN

Translate(translator, for, ops, ok) ==
    IF ok
    THEN [raised |-> FALSE,
          value |-> [translator |-> translator, provider |-> for, ops |-> ops]]
    ELSE [raised |-> TRUE, value |-> NoCircuit]

\* convert_circuit: the translator of self.provider, None for any other selector.
convert_circuit(self, ok) ==
    IF self.provider = IBM_PROVIDER
    THEN Translate("to_qiskit", IBM_PROVIDER, self.operations, ok)
    ELSE IF self.provider = GOOGLE_PROVIDER
    THEN Translate("to_cirq", GOOGLE_PROVIDER, self.operations, ok)
    ELSE IF self.provider = IONQ_PROVIDER
    THEN Translate("to_cirq", IONQ_PROVIDER, self.operations, ok)
    ELSE IF self.provider = MICROSOFT_PROVIDER
    THEN Translate("to_q_sharp", MICROSOFT_PROVIDER, self.operations, ok)
    ELSE IF self.provider = AMAZON_PROVIDER
    THEN Translate("to_braket", AMAZON_PROVIDER, self.operations, ok)
    ELSE [raised |-> FALSE, value |-> NoCircuit]

\* A check_and_convert that also retranslates when operations were appended
\* since the cached circuit was built.
check_and_convert_fresh(self, requested, ok) ==
    IF \/ self.converted_q_circuit = NoCircuit
       \/ self.provider # requested
       \/ self.converted_q_circuit.ops # self.operations
    THEN LET s1 == [self EXCEPT !.provider = requested]
             c == convert_circuit(s1, ok)
         IN  IF c.raised
             THEN [self |-> s1, error |-> "TranslationError", translated |-> 1]
             ELSE [self |-> [s1 EXCEPT !.converted_q_circuit = c.value],
                   error |-> "", translated |-> 1]
    ELSE [self |-> self, error |-> "", translated |-> 0]

\* check_and_convert: `translated` counts the calls of convert_circuit.
check_and_convert(self, requested, ok) ==
    IF self.converted_q_circuit = NoCircuit \/ self.provider # requested
    THEN LET s1 == [self EXCEPT !.provider = requested]
             c == convert_circuit(s1, ok)
         IN  IF c.raised
             THEN [self |-> s1, error |-> "TranslationError", translated |-> 1]
             ELSE [self |-> [s1 EXCEPT !.converted_q_circuit = c.value],
                   error |-> "", translated |-> 1]
    ELSE [self |-> self, error |-> "", translated |-> 0]

\* providers.DEFAULT_PROVIDER (quantumcat.utils.providers): the one selector
\* that __init__, draw_circuit and execute all take as the default of their
\* provider parameter.
DEFAULT_PROVIDER == IBM_PROVIDER

\* The arguments of execute, with the defaults of its signature.
PollTimeoutDefault == 100
PollIntervalDefault == 10

ExecuteDefaults ==
    [provider |-> DEFAULT_PROVIDER, simulator_name |-> "DEFAULT_SIMULATOR",
     repetitions |-> "DEFAULT_REPETITIONS", api |-> None, device |-> None,
     default_target |-> "simulator", bucket |-> None,
     poll_timeout_seconds |-> PollTimeoutDefault,
     poll_interval_seconds |-> PollIntervalDefault, directory |-> None]

\* execute_circuit.on_qiskit / on_cirq / on_braket / on_ionq
\* (quantumcat.circuit.execute_circuit): runs or submits the native circuit and
\* returns the counts, or raises (a failed or timed-out task).
Dispatch(dispatcher, circuit, ok) ==
    [dispatcher |-> dispatcher, circuit |-> circuit,
     value |-> IF ok THEN "counts" ELSE None,
     error |-> IF ok THEN "" ELSE "DispatchError"]

NoDispatch(value, error) ==
    [dispatcher |-> None, circuit |-> NoCircuit, value |-> value, error |-> error]

\* An execute whose IonQ branch dispatches without looking at api.
ExecuteBranchNoApiCheck(self, a, exOk) ==
    IF self.provider = IBM_PROVIDER
    THEN Dispatch("on_qiskit", self.converted_q_circuit, exOk)
    ELSE IF self.provider = GOOGLE_PROVIDER
    THEN Dispatch("on_cirq", self.converted_q_circuit, exOk)
    ELSE IF self.provider = AMAZON_PROVIDER
    THEN Dispatch("on_braket", self.converted_q_circuit, exOk)
    ELSE IF self.provider = IONQ_PROVIDER
    THEN Dispatch("on_ionq", self.converted_q_circuit, exOk)
    ELSE NoDispatch(None, "")

\* The branch of execute taken once check_and_convert has returned.
ExecuteBranch(self, a, exOk) ==
    IF self.provider = IBM_PROVIDER
    THEN Dispatch("on_qiskit", self.converted_q_circuit, exOk)
    ELSE IF self.provider = GOOGLE_PROVIDER
    THEN Dispatch("on_cirq", self.converted_q_circuit, exOk)
    ELSE IF self.provider = AMAZON_PROVIDER
    THEN Dispatch("on_braket", self.converted_q_circuit, exOk)
    ELSE IF self.provider = IONQ_PROVIDER
    THEN IF a.api = None
         THEN NoDispatch(None, "APIDetailsNotFoundError")
         ELSE Dispatch("on_ionq", self.converted_q_circuit, exOk)
    ELSE NoDispatch(None, "")

\* execute: the circuit after the call and what the call did. trOk and exOk
\* are the outcomes of the translator and of the dispatcher, if called.
execute(self, a, trOk, exOk) ==
    LET cc == check_and_convert(self, a.provider, trOk)
        d == IF cc.error # "" THEN NoDispatch(None, cc.error)
             ELSE ExecuteBranch(cc.self, a, exOk)
    IN  [self |-> cc.self, value |-> d.value, error |-> d.error,
         step |-> [args |-> a, translated |-> cc.translated,
                   dispatcher |-> d.dispatcher, circuit |-> d.circuit,
                   value |-> d.value, error |-> d.error]]

\* draw_circuit: converts, prints the native circuit (the printing itself is
\* not modelled) and returns None.
draw_circuit(self, requested, trOk) ==
    LET cc == check_and_convert(self, requested, trOk)
    IN  [self |-> cc.self, value |-> None, error |-> cc.error,
         step |-> [args |-> [ExecuteDefaults EXCEPT !.provider = requested],
                   translated |-> cc.translated,
                   dispatcher |-> None, circuit |-> NoCircuit,
                   value |-> None, error |-> cc.error]]

\* The circuit's fields after a call that returned `r`.
Becomes(r) ==
    /\ provider' = r.self.provider
    /\ converted_q_circuit' = r.self.converted_q_circuit
    /\ UNCHANGED <<qubits, operations, callers>>

ApiValues == {None, "api"}

Execute ==
    \E p \in Providers, api \in ApiValues,
       trOk \in TranslateOutcomes(operations), exOk \in BOOLEAN :
        LET a == [ExecuteDefaults EXCEPT !.provider = p, !.api = api]
            r == execute(Self, a, trOk, exOk)
        IN  /\ Becomes(r)
            /\ last' = [call |-> "execute", input |-> NoneList, value |-> r.value,
                        error |-> r.error, steps |-> <<r.step>>, output |-> <<>>]

DrawCircuit ==
    \E p \in Providers, trOk \in TranslateOutcomes(operations) :
        LET r == draw_circuit(Self, p, trOk)
        IN  /\ Becomes(r)
            /\ last' = [call |-> "draw_circuit", input |-> NoneList, value |-> r.value,
                        error |-> r.error, steps |-> <<r.step>>, output |-> <<>>]

\* execute(...) with no provider argument: the parameter takes its default.
ExecuteWithoutBackend ==
    \E api \in ApiValues, trOk \in TranslateOutcomes(operations), exOk \in BOOLEAN :
        LET a == [ExecuteDefaults EXCEPT !.api = api]
            r == execute(Self, a, trOk, exOk)
        IN  /\ Becomes(r)
            /\ last' = [call |-> "execute()", input |-> NoneList, value |-> r.value,
                        error |-> r.error, steps |-> <<r.step>>, output |-> <<>>]

\* draw_circuit() with no argument.
DrawWithoutBackend ==
    \E trOk \in TranslateOutcomes(operations) :
        LET r == draw_circuit(Self, DEFAULT_PROVIDER, trOk)
        IN  /\ Becomes(r)
            /\ last' = [call |-> "draw_circuit()", input |-> NoneList,
                        value |-> r.value, error |-> r.error,
                        steps |-> <<r.step>>, output |-> <<>>]

CheckAndConvert ==
    \E p \in Providers, trOk \in TranslateOutcomes(operations) :
        LET cc == check_and_convert(Self, p, trOk)
        IN  /\ Becomes(cc)
            /\ last' = [call |-> "check_and_convert", input |-> NoneList,
                        value |-> None, error |-> cc.error,
                        steps |-> <<[args |-> [ExecuteDefaults EXCEPT !.provider = p],
                                     translated |-> cc.translated,
                                     dispatcher |-> None, circuit |-> NoCircuit,
                                     value |-> None, error |-> cc.error]>>,
                        output |-> <<>>]

(***************************************************************************)
(* compare_results.                                                        *)
(*                                                                         *)
(* A configuration record (provider_json) is a function from the keys it   *)
(* holds to their values.                                                  *)
(***************************************************************************)
ConfigKeys ==
    {"provider", "api", "device", "bucket", "directory", "simulator",
     "repetitions", "poll_timeout_seconds", "poll_interval_seconds"}

\* d.get-like reading of lines 485..496: `default if key not in d else d[key]`.
KeyOr(cfg, key, default) == IF key \notin DOMAIN cfg THEN default ELSE cfg[key]

\* The arguments compare_results passes to execute for one record that holds
\* the key 'provider'.
ConfigArgs(cfg) ==
    [provider |-> cfg["provider"],
     simulator_name |-> KeyOr(cfg, "simulator", "DEFAULT_SIMULATOR"),
     repetitions |-> KeyOr(cfg, "repetitions", "DEFAULT_REPETITIONS"),
     api |-> KeyOr(cfg, "api", None),
     device |-> KeyOr(cfg, "device", None),
     default_target |-> ExecuteDefaults.default_target,
     bucket |-> KeyOr(cfg, "bucket", None),
     poll_timeout_seconds |-> KeyOr(cfg, "poll_timeout_seconds", PollTimeoutDefault),
     poll_interval_seconds |-> KeyOr(cfg, "poll_interval_seconds", PollIntervalDefault),
     directory |-> KeyOr(cfg, "directory", None)]

\* output_dict[key] = value
DictSet(d, key, value) ==
    [k \in DOMAIN d \cup {key} |-> IF k = key THEN value ELSE d[k]]

\* The loop of the explicit branch from record i on. An exception (the
\* KeyError of provider_json['provider'], or whatever execute raises) leaves
\* the function: nothing is returned.
RECURSIVE CompareExplicit(_, _, _, _, _, _, _)
CompareExplicit(self, list, i, trOks, exOks, output_dict, steps) ==
    IF i > Len(list)
    THEN [self |-> self, value |-> "output_dict", error |-> "",
          output |-> output_dict, steps |-> steps]
    ELSE IF "provider" \notin DOMAIN list[i]
    THEN [self |-> self, value |-> None, error |-> "KeyError",
          output |-> <<>>, steps |-> steps]
    ELSE LET r == execute(self, ConfigArgs(list[i]), trOks[i], exOks[i])
         IN  IF r.error # ""
             THEN [self |-> r.self, value |-> None, error |-> r.error,
                   output |-> <<>>, steps |-> Append(steps, r.step)]
             ELSE CompareExplicit(r.self, list, i + 1, trOks, exOks,
                                  DictSet(output_dict, list[i]["provider"], r.value),
                                  Append(steps, r.step))

\* The loop of the default branch: execute(provider=.., repetitions=..) on
\* the three default providers.
DefaultProvidersList == <<GOOGLE_PROVIDER, IBM_PROVIDER, AMAZON_PROVIDER>>

RECURSIVE CompareDefault(_, _, _, _, _, _, _)
CompareDefault(self, repetitions, i, trOks, exOks, output_dict, steps) ==
    IF i > Len(DefaultProvidersList)
    THEN [self |-> self, value |-> "output_dict", error |-> "",
          output |-> output_dict, steps |-> steps]
    ELSE LET a == [ExecuteDefaults EXCEPT !.provider = DefaultProvidersList[i],
                                          !.repetitions = repetitions]
             r == execute(self, a, trOks[i], exOks[i])
         IN  IF r.error # ""
             THEN [self |-> r.self, value |-> None, error |-> r.error,
                   output |-> <<>>, steps |-> Append(steps, r.step)]
             ELSE CompareDefault(r.self, repetitions, i + 1, trOks, exOks,
                                 DictSet(output_dict, DefaultProvidersList[i], r.value),
                                 Append(steps, r.step))

compare_results(self, providers_list, repetitions, trOks, exOks) ==
    IF providers_list.none
    THEN CompareDefault(self, repetitions, 1, trOks, exOks, <<>>, <<>>)
    ELSE CompareExplicit(self, providers_list.list, 1, trOks, exOks, <<>>, <<>>)

\* The configuration records a caller may pass: all keys, all but the
\* provider, all but the api key.
MaxConfigs == 2

FullConfig(p) ==
    [provider |-> p, api |-> "api", device |-> "device", bucket |-> "bucket",
     directory |-> "directory", simulator |-> "simulator", repetitions |-> "r10",
     poll_timeout_seconds |-> 5, poll_interval_seconds |-> 1]

Restrict(f, K) == [k \in K |-> f[k]]

Configs ==
    {Restrict(FullConfig(p), K) :
        p \in {IBM_PROVIDER, IONQ_PROVIDER},
        K \in {ConfigKeys, ConfigKeys \ {"provider"}, ConfigKeys \ {"api"}}}

\* The outcomes of the translator and dispatcher calls of a loop of n
\* executions. The loop ends at the first call that raises, so the outcomes
\* with at most one failure give every run of the loop.
LoopOutcomes(n, ops) ==
    {oc \in [tr : [1..n -> TranslateOutcomes(ops)], ex : [1..n -> BOOLEAN]] :
        Cardinality({i \in 1..n : ~oc.tr[i]}) + Cardinality({i \in 1..n : ~oc.ex[i]}) <= 1}

CompareResults ==
    \E providers_list \in {NoneList} \cup
            {SomeList(l) : l \in SeqsOf(Configs, 1, MaxConfigs)} :
      LET n == IF providers_list.none THEN Len(DefaultProvidersList)
               ELSE Len(providers_list.list)
      IN  \E oc \in LoopOutcomes(n, operations) :
            LET r == compare_results(Self, providers_list, "DEFAULT_REPETITIONS",
                                     oc.tr, oc.ex)
            IN  /\ Becomes(r)
                /\ last' = [call |-> "compare_results", input |-> providers_list,
                            value |-> r.value, error |-> r.error,
                            steps |-> r.steps, output |-> r.output]

\* Gates appended between runs: an accepted and a rejected x_gate, measure_all.
RunX == \E q \in {0, qubits} : Len(operations) < MaxRunOps /\ x_gate(q)
RunMeasureAll == Len(operations) < MaxRunOps /\ measure_all

Next ==
    \/ RunX
    \/ RunMeasureAll
    \/ DrawCircuit
    \/ Execute
    \/ CheckAndConvert

Spec == Init /\ [][Next]_vars

\* Runs in which the caller also leaves the backend out.
DefaultNext ==
    \/ RunX
    \/ RunMeasureAll
    \/ DrawCircuit
    \/ Execute
    \/ DrawWithoutBackend
    \/ ExecuteWithoutBackend

SpecDefault == Init /\ [][DefaultNext]_vars

\* Comparing backends, on the empty circuit and on a measured one.
CompareMeasureAll == Len(operations) < 1 /\ measure_all

CompareNext ==
    \/ CompareMeasureAll
    \/ CompareResults

SpecCompare == Init /\ [][CompareNext]_vars

(***************************************************************************)
(* Callers that run execute on one shared circuit at the same time. The    *)
(* code takes no lock, so the reads and writes of self.provider and        *)
(* self.converted_q_circuit of different callers interleave; each step     *)
(* below is one read or one write of a shared field, at the line named.    *)
(***************************************************************************)
Callers == 1..NumCallers

\* The elif chains of convert_circuit and of execute, in source order.
ConvertBranches ==
    <<[p |-> IBM_PROVIDER, call |-> "to_qiskit"],
      [p |-> GOOGLE_PROVIDER, call |-> "to_cirq"],
      [p |-> IONQ_PROVIDER, call |-> "to_cirq"],
      [p |-> MICROSOFT_PROVIDER, call |-> "to_q_sharp"],
      [p |-> AMAZON_PROVIDER, call |-> "to_braket"]>>

ExecuteBranches ==
    <<[p |-> IBM_PROVIDER, call |-> "on_qiskit"],
      [p |-> GOOGLE_PROVIDER, call |-> "on_cirq"],
      [p |-> AMAZON_PROVIDER, call |-> "on_braket"],
      [p |-> IONQ_PROVIDER, call |-> "on_ionq"]>>

\* The backends the concurrent callers ask for.
CallerProviders == {IBM_PROVIDER, GOOGLE_PROVIDER, IONQ_PROVIDER}

StartCaller(p) ==
    [pc |-> "cc_test_cache", args |-> [ExecuteDefaults EXCEPT !.provider = p, !.api = "api"],
     branch |-> 1, local |-> NoCircuit, result |-> NoDispatch(None, "")]

InitShared ==
    /\ qubits \in 1..MaxQubits
    /\ operations = <<Op("measure_all", <<>>, <<>>)>>
    /\ converted_q_circuit = NoCircuit
    /\ provider \in Providers
    /\ last = [call |-> "__init__", input |-> NoneList, value |-> None,
               error |-> "", steps |-> <<>>, output |-> <<>>]
    /\ callers \in [Callers -> {StartCaller(p) : p \in CallerProviders}]

Shared == <<qubits, operations, converted_q_circuit, provider, last>>

\* line 442, left operand: self.converted_q_circuit is None
CcTestCache(t) ==
    /\ callers[t].pc = "cc_test_cache"
    /\ callers' = [callers EXCEPT ![t].pc =
            IF converted_q_circuit = NoCircuit THEN "cc_set" ELSE "cc_test_provider"]
    /\ UNCHANGED Shared

\* line 442, right operand: self.provider != provider
CcTestProvider(t) ==
    /\ callers[t].pc = "cc_test_provider"
    /\ callers' = [callers EXCEPT ![t].pc =
            IF provider # callers[t].args.provider THEN "cc_set" ELSE "ex_test"]
    /\ UNCHANGED Shared

\* line 443: self.provider = provider
CcSet(t) ==
    /\ callers[t].pc = "cc_set"
    /\ provider' = callers[t].args.provider
    /\ callers' = [callers EXCEPT ![t].pc = "cv_test", ![t].branch = 1]
    /\ UNCHANGED <<qubits, operations, converted_q_circuit, last>>

\* lines 403, 405, 407, 409, 411: one comparison of self.provider
CvTest(t) ==
    /\ callers[t].pc = "cv_test"
    /\ LET b == callers[t].branch
       IN  callers' =
             IF provider = ConvertBranches[b].p
             THEN [callers EXCEPT ![t].pc = "cv_call"]
             ELSE IF b = Len(ConvertBranches)
             THEN [callers EXCEPT ![t].pc = "cc_store", ![t].local = NoCircuit]
             ELSE [callers EXCEPT ![t].branch = b + 1]
    /\ UNCHANGED Shared

\* lines 404..412: the translator of the branch taken, on self.operations
CvCall(t) ==
    /\ callers[t].pc = "cv_call"
    /\ \E ok \in TranslateOutcomes(operations) :
         LET b == ConvertBranches[callers[t].branch]
             c == Translate(b.call, b.p, operations, ok)
         IN  callers' =
               IF c.raised
               THEN [callers EXCEPT ![t].pc = "done",
                                    ![t].result = NoDispatch(None, "TranslationError")]
               ELSE [callers EXCEPT ![t].pc = "cc_store", ![t].local = c.value]
    /\ UNCHANGED Shared

\* line 445: self.converted_q_circuit = converted_q_circuit
CcStore(t) ==
    /\ callers[t].pc = "cc_store"
    /\ converted_q_circuit' = callers[t].local
    /\ callers' = [callers EXCEPT ![t].pc = "ex_test", ![t].branch = 1]
    /\ UNCHANGED <<qubits, operations, provider, last>>

\* lines 423, 427, 430, 435: one comparison of self.provider; line 436
ExTest(t) ==
    /\ callers[t].pc = "ex_test"
    /\ LET b == callers[t].branch
       IN  callers' =
             IF provider = ExecuteBranches[b].p
             THEN IF ExecuteBranches[b].p = IONQ_PROVIDER /\ callers[t].args.api = None
                  THEN [callers EXCEPT ![t].pc = "done",
                            ![t].result = NoDispatch(None, "APIDetailsNotFoundError")]
                  ELSE [callers EXCEPT ![t].pc = "ex_call"]
             ELSE IF b = Len(ExecuteBranches)
             THEN [callers EXCEPT ![t].pc = "done", ![t].result = NoDispatch(None, "")]
             ELSE [callers EXCEPT ![t].branch = b + 1]
    /\ UNCHANGED Shared

\* lines 424, 428, 431, 438: self.converted_q_circuit is read and dispatched
ExCall(t) ==
    /\ callers[t].pc = "ex_call"
    /\ \E ok \in BOOLEAN :
         callers' = [callers EXCEPT ![t].pc = "done",
                        ![t].result = Dispatch(ExecuteBranches[callers[t].branch].call,
                                               converted_q_circuit, ok)]
    /\ UNCHANGED Shared

SharedNext ==
    \E t \in Callers :
        \/ CcTestCache(t)
        \/ CcTestProvider(t)
        \/ CcSet(t)
        \/ CvTest(t)
        \/ CvCall(t)
        \/ CcStore(t)
        \/ ExTest(t)
        \/ ExCall(t)

SpecShared == InitShared /\ [][SharedNext]_vars

(***************************************************************************)
(* Properties.                                                             *)
(***************************************************************************)
\* Every qubit index held by the operation log.
LogIndices == UNION {OpIndices(operations[i]) : i \in 1..Len(operations)}

\* C1: a gate-building call given an index >= qubits in any role raises and
\* appends nothing, so the operation log never holds an index >= qubits.
C1_NoIndexPastTheEnd == \A q \in LogIndices : q < qubits

\* C2: a gate-building call given a negative index is rejected, so every index
\* in the operation log is >= 0.
C2_NoNegativeIndex == \A q \in LogIndices : q >= 0

\* The calls that go through check_and_convert once.
TranslatingCalls == {"draw_circuit", "execute", "check_and_convert"}

\* C3: a draw_circuit / execute / check_and_convert call translates if and
\* only if no native circuit is cached or the requested backend differs from
\* the backend the cached circuit was built for.
C3_TranslatesIffNoCacheOrOtherBackend ==
    [][last'.call \in TranslatingCalls =>
        (last'.steps[1].translated = 1 <=>
            \/ converted_q_circuit = NoCircuit
            \/ last'.steps[1].args.provider # converted_q_circuit.provider)]_vars

\* C4: compare_results on an explicit list of two or more records (each naming
\* its provider) executes every record even when an earlier execution raises,
\* and returns a mapping with an entry for every provider of the list.
C4_EveryConfigurationExecuted ==
    (/\ last.call = "compare_results"
     /\ ~last.input.none
     /\ Len(last.input.list) >= 2
     /\ \A i \in 1..Len(last.input.list) : "provider" \in DOMAIN last.input.list[i])
    => /\ last.value = "output_dict"
       /\ Len(last.steps) = Len(last.input.list)
       /\ \A i \in 1..Len(last.input.list) :
            last.input.list[i]["provider"] \in DOMAIN last.output

\* An execute call on the IonQ backend without credentials has just returned.
ExecutedIonqWithoutApi ==
    /\ last.call = "execute"
    /\ last.steps[1].args.provider = IONQ_PROVIDER
    /\ last.steps[1].args.api = None

\* C5, as claimed: execute on the IonQ backend with api=None raises
\* APIDetailsNotFoundError and the dispatcher is not invoked.
C5_AlwaysApiDetailsNotFound ==
    ExecutedIonqWithoutApi =>
        /\ last.error = "APIDetailsNotFoundError"
        /\ last.steps[1].dispatcher = None

\* C5, amended: execute on the IonQ backend with api=None never invokes the
\* dispatcher and always raises; the error is APIDetailsNotFoundError unless
\* this call's translation raised first.
C5_NoDispatchWithoutApi ==
    ExecutedIonqWithoutApi =>
        /\ last.steps[1].dispatcher = None
        /\ last.error \in {"APIDetailsNotFoundError", "TranslationError"}
        /\ last.error = "TranslationError" => last.steps[1].translated = 1

C5_Witness ==
    /\ ExecutedIonqWithoutApi
    /\ last.error = "APIDetailsNotFoundError"
    /\ converted_q_circuit # NoCircuit

\* C6: execute never completes silently without a result: it returns the
\* dispatcher's counts or raises.
C6_CountsOrError ==
    last.call = "execute" => (last.error # "" \/ last.value = "counts")

\* C7: every gate-building call, measure and measure_all included, returns
\* the circuit it was called on when it succeeds.
C7_ReturnsSelf ==
    (last.call \in GateCalls /\ last.error = "") => last.value = "self"

\* The dispatcher execute uses for a backend.
DispatcherOf(p) ==
    LET b == {i \in 1..Len(ExecuteBranches) : ExecuteBranches[i].p = p}
    IN  IF b = {} THEN None ELSE ExecuteBranches[CHOOSE i \in b : TRUE].call

\* C8: when callers run execute concurrently on one circuit, each call that
\* dispatches does so on the dispatcher of the backend it asked for, with a
\* native circuit translated for that backend.
C8_DispatchesOwnBackend ==
    \A t \in DOMAIN callers :
        callers[t].result.dispatcher # None =>
            /\ callers[t].result.dispatcher = DispatcherOf(callers[t].args.provider)
            /\ callers[t].result.circuit.provider = callers[t].args.provider

\* The arguments a record should be executed with when each key is defaulted
\* on its own, the backend key included.
C9_DefaultedArgs(cfg) ==
    [provider |-> KeyOr(cfg, "provider", ExecuteDefaults.provider),
     simulator_name |-> KeyOr(cfg, "simulator", ExecuteDefaults.simulator_name),
     repetitions |-> KeyOr(cfg, "repetitions", ExecuteDefaults.repetitions),
     api |-> KeyOr(cfg, "api", ExecuteDefaults.api),
     device |-> KeyOr(cfg, "device", ExecuteDefaults.device),
     default_target |-> ExecuteDefaults.default_target,
     bucket |-> KeyOr(cfg, "bucket", ExecuteDefaults.bucket),
     poll_timeout_seconds |->
        KeyOr(cfg, "poll_timeout_seconds", ExecuteDefaults.poll_timeout_seconds),
     poll_interval_seconds |->
        KeyOr(cfg, "poll_interval_seconds", ExecuteDefaults.poll_interval_seconds),
     directory |-> KeyOr(cfg, "directory", ExecuteDefaults.directory)]

\* C9: in compare_results on an explicit list, a record missing any key, the
\* backend key included, is still executed, and every record that is executed
\* gets its own values for the keys it holds and the defaults for the others.
C9_EachKeyDefaulted ==
    (last.call = "compare_results" /\ ~last.input.none) =>
        /\ Len(last.steps) >= 1
        /\ \A i \in 1..Len(last.steps) :
              last.steps[i].args = C9_DefaultedArgs(last.input.list[i])

\* C10: with a native circuit cached for backend B and operations appended
\* since it was built, execute with B does not retranslate, keeps the cached
\* circuit, and what it dispatches is that circuit.
C10_AppendKeepsCache ==
    [][(/\ last'.call = "execute"
        /\ converted_q_circuit # NoCircuit
        /\ converted_q_circuit.provider = provider
        /\ converted_q_circuit.ops # operations
        /\ last'.steps[1].args.provider = provider)
       => /\ last'.steps[1].translated = 0
          /\ converted_q_circuit' = converted_q_circuit
          /\ last'.steps[1].dispatcher # None =>
                last'.steps[1].circuit = converted_q_circuit]_vars

C10_Witness ==
    /\ last.call = "execute"
    /\ last.steps[1].translated = 0
    /\ last.steps[1].dispatcher # None
    /\ last.steps[1].circuit.provider = last.steps[1].args.provider
    /\ last.steps[1].circuit.ops # operations

\* C11: the operation log is append-only and its entries immutable: a
\* successful gate-building call adds exactly one operation at the end and
\* leaves the earlier ones as they were; a rejected call, and any other action
\* (the caller changing a list it passed in or got from get_operations
\* included), leaves the log unchanged.
C11_LogAppendOnly ==
    [][IF last'.call \in GateCalls /\ last'.error = ""
       THEN /\ Len(operations') = Len(operations) + 1
            /\ SubSeq(operations', 1, Len(operations)) = operations
       ELSE operations' = operations]_vars

\* C12: a multi-controlled gate call records every argument it was given:
\* mcx_gate records the controls in order, the target, the ancillas, the number
\* of controls as its parameter and the mode; mcxvchain_gate records the
\* controls, the target, the number of controls and the dirty_ancilla flag.
C12_RecordsEveryArgument ==
    [][/\ \A cs \in ControlLists, t \in {0, qubits}, as \in AncillaLists,
             m \in Modes :
            (mcx_gate(cs, t, as, m) /\ last'.error = "") =>
                LET op == operations'[Len(operations')] IN
                    /\ op.kind = "mcx_gate"
                    /\ op.qubits = <<cs \o <<t>> \o as>>
                    /\ op.params = <<Len(cs)>>
                    /\ op.mode = m
       /\ \A cs \in ControlLists, t \in {0, qubits}, d \in BOOLEAN :
            (mcxvchain_gate(cs, t, d) /\ last'.error = "") =>
                LET op == operations'[Len(operations')] IN
                    /\ op.kind = "mcxvchain_gate"
                    /\ op.qubits = <<cs \o <<t>>>>
                    /\ op.params = <<Len(cs), d>>]_vars

\* C13: execute and draw_circuit called without a backend work with the
\* backend the circuit is configured with (the constructor's, or the most
\* recent call's): the circuit's backend stays what it was, a translation made
\* by the call is made for it, and a dispatch goes to its dispatcher.
C13_NoBackendKeepsConfigured ==
    [][last'.call \in {"execute()", "draw_circuit()"} =>
        LET st == last'.steps[1] IN
            /\ provider' = provider
            /\ (st.translated = 1 /\ st.error = "") =>
                   converted_q_circuit'.provider = provider
            /\ st.dispatcher # None => st.dispatcher = DispatcherOf(provider)]_vars

\* The translator convert_circuit calls for a backend, None when it has none.
TranslatorOf(p) ==
    LET b == {i \in 1..Len(ConvertBranches) : ConvertBranches[i].p = p}
    IN  IF b = {} THEN None ELSE ConvertBranches[CHOOSE i \in b : TRUE].call

\* C14: a cached native circuit was produced by the translator of the backend
\* the circuit currently names, for that backend, after any sequence of
\* draw_circuit and execute calls, those in which a translation raises included.
C14_CacheBuiltByCurrentBackend ==
    converted_q_circuit # NoCircuit =>
        /\ converted_q_circuit.provider = provider
        /\ converted_q_circuit.translator = TranslatorOf(provider)

====
